---- MODULE Spec2Model ----
(***************************************************************************)
(* The audit log of the intercepting proxy (src/proxy/logger.go): the      *)
(* Logger with its in-memory working set `requests`, the id lookup         *)
(* `requestIdx` and the durable store requests.jsonl, driven by NewLogger, *)
(* LogRequest, LogResponse, GetRequests and Close.                         *)
(*                                                                         *)
(* Go values are modelled as follows.                                      *)
(*   - a string or []byte is a sequence of units; a body is a sequence of  *)
(*     one-byte units, the literal "... [truncated]" is one unit;          *)
(*   - a map[string]string is a reference into `heap` (0 is the nil map),  *)
(*     so that a copy of a RequestLog shares its maps as it does in Go;    *)
(*   - the content of requests.jsonl is a sequence of tokens: a complete   *)
(*     JSON object, a newline, or a fragment (bytes that are not JSON,     *)
(*     such as the part of a line a failed write left behind).             *)
(* Every handler holds l.mu from entry to return, so each handler is one   *)
(* atomic action here.                                                     *)
(*                                                                         *)
(* Failures of the environment: a write to the file may fail, writing      *)
(* nothing or a part of the line (logger.go:162-164, 234-236); reading a   *)
(* body may fail (logger.go:128-129, 209-210).  The runs in which          *)
(* os.OpenFile or os.ReadFile fail are left out: NewLogger then returns no *)
(* Logger, or one with an empty working set.  json.Marshal cannot fail on  *)
(* a RequestLog (strings, an int, string maps and a time.Now() value), so  *)
(* the returns of logger.go:157-160 and 229-232 are never taken.           *)
(***************************************************************************)
EXTENDS Integers, Sequences, FiniteSets, TLC

(***************************************************************************)
(* Bounds.  MaxLoggedRequests and MaxBodyLog stand for the 1000 of         *)
(* logger.go:172-174 and the 10*1024 of logger.go:133-134, 214-215, scaled *)
(* down so that eviction and truncation happen within the explored runs.   *)
(***************************************************************************)
MaxLoggedRequests == 2
MaxBodyLog == 2
MaxCompleteCalls == 2
MaxSnapshots == 1
MaxStarts == 2
MaxWriteFailures == 1
MaxRecordCalls == MaxLoggedRequests + 1
MaxBodyLen == MaxBodyLog + 2
MaxNameLen == 3
MaxCAStarts == 3
MaxSessions == 2

VARIABLES
    mode,        \* what the environment does in this run (see the budgets)
    up,          \* TRUE while the process runs and holds its Logger
    closed,      \* TRUE once Logger.Close has closed l.logFile
    logFile,     \* content of requests.jsonl: sequence of tokens
    requests,    \* l.requests: sequence of RequestLog (maps by reference)
    requestIdx,  \* l.requestIdx: id -> 0-based index into requests
    heap,        \* the maps allocated so far: reference -> map content
    now,         \* the wall clock read by time.Now()
    snapshot,    \* the slice last returned by GetRequests
    snapView,    \* history: what that slice showed when GetRequests returned
    created,     \* history: the entries LogRequest created since NewLogger
    restored,    \* history: number of records loaded by NewLogger
    last,        \* history: the last call, its arguments and its result
    calls,       \* history: number of calls made, per operation
    disk,        \* the files that exist, as cleaned absolute paths
    web,         \* history: the last request to the web server and its answer
    caFiles,     \* the artifacts ca.crt and ca.key of the logs directory
    ca,          \* history: the calls of LoadOrCreateCA and their results
    mu,          \* l.mu: the sessions that hold it
    sess         \* per session: the call it is in, where, and its locals

(* The state of the Logger and its history. *)
loggerVars == <<up, closed, logFile, requests, requestIdx, heap, now, snapshot,
                snapView, created, restored, last, calls>>

(* The state outside the Logger. *)
others == <<disk, web, caFiles, ca, mu, sess>>

vars == <<mode, up, closed, logFile, requests, requestIdx, heap, now, snapshot,
          snapView, created, restored, last, calls, disk, web, caFiles, ca,
          mu, sess>>

----------------------------------------------------------------------------
(* Helpers on sequences and functions. *)

Min(a, b) == IF a < b THEN a ELSE b

Range(s) == {s[i] : i \in 1..Len(s)}

Take(s, n) == SubSeq(s, 1, Min(n, Len(s)))

Drop(s, n) == SubSeq(s, n + 1, Len(s))

EmptyMap == [k \in {} |-> <<>>]

NilRef == 0

----------------------------------------------------------------------------
(* RequestLog, logger.go:18-30. *)

ZeroRequestLog ==
    [ID |-> "", Timestamp |-> 0, Method |-> "", Domain |-> "", Path |-> "",
     Headers |-> NilRef, Body |-> <<>>, ResponseStatus |-> 0,
     ResponseHeaders |-> NilRef, ResponseBody |-> <<>>, PcapFile |-> <<>>]

(* What a reader of a RequestLog value sees: its maps dereferenced. *)
MapView(h, ref) ==
    IF ref = NilRef THEN [null |-> TRUE] ELSE [null |-> FALSE, m |-> h[ref]]

View(h, e) ==
    [e EXCEPT !.Headers = MapView(h, e.Headers),
              !.ResponseHeaders = MapView(h, e.ResponseHeaders)]

ViewAll(h, s) == [i \in 1..Len(s) |-> View(h, s[i])]

(* Variant of ResponseHeadersMap: a record that has a response map gets    *)
(* the new headers written into that map.                                  *)
ResponseHeadersInPlace(h, e, content) ==
    IF e.ResponseHeaders # NilRef
    THEN [ref |-> e.ResponseHeaders,
          heap |-> [h EXCEPT ![e.ResponseHeaders] = content]]
    ELSE LET ref == Cardinality(DOMAIN h) + 1
         IN  [ref |-> ref, heap |-> (ref :> content) @@ h]

(* A new map holding `content`: make(map[string]string) and its fills. *)
NewMap(h, content) ==
    LET ref == Cardinality(DOMAIN h) + 1
    IN  [ref |-> ref, heap |-> (ref :> content) @@ h]

----------------------------------------------------------------------------
(* encoding/json on RequestLog, with the struct tags of logger.go:19-29.   *)

Truncated == "... [truncated]"
Redacted == "[REDACTED]"

(* The bytes of a body.  "xc3" begins a character of two bytes, "xef" one *)
(* of three, "xa9", "xbf" and "xbd" continue a character, "xff" is part of *)
(* no UTF-8 text; every other unit is ASCII text.  U+FFFD is EF BF BD.     *)
Lead2 == {"xc3"}
Lead3 == {"xef"}
Continuation == {"xa9", "xbf", "xbd"}
NotUTF8 == {"xff"}
ReplacementChar == <<"xef", "xbf", "xbd">>

(* utf8.DecodeRuneInString at s[i:]: the size of the character that        *)
(* begins there, 0 when the bytes there are no character.                  *)
RuneSize(s, i) ==
    CASE s[i] \in Lead2 ->
            IF i + 1 <= Len(s) /\ s[i + 1] \in Continuation THEN 2 ELSE 0
      [] s[i] \in Lead3 ->
            IF /\ i + 2 <= Len(s)
               /\ s[i + 1] \in Continuation
               /\ s[i + 2] \in Continuation
            THEN 3 ELSE 0
      [] s[i] \in Continuation \cup NotUTF8 -> 0
      [] OTHER -> 1

(* The string json.Marshal writes for a Go string, read back: characters   *)
(* are kept, every byte that is part of none is written as \ufffd.         *)
RECURSIVE ToValidUTF8From(_, _)
ToValidUTF8From(s, i) ==
    IF i > Len(s) THEN <<>>
    ELSE IF RuneSize(s, i) = 0
         THEN ReplacementChar \o ToValidUTF8From(s, i + 1)
         ELSE SubSeq(s, i, i + RuneSize(s, i) - 1)
                \o ToValidUTF8From(s, i + RuneSize(s, i))

ToValidUTF8(s) == ToValidUTF8From(s, 1)

(* The same for the strings the model keeps whole: the one value that is   *)
(* not UTF-8 text, the byte 0xFF, is written as U+FFFD.                    *)
BinaryValue == "<0xFF>"
ReplacedValue == "<U+FFFD>"
ValidUTF8String(v) == IF v = BinaryValue THEN ReplacedValue ELSE v
ValidUTF8Map(m) == [k \in DOMAIN m |-> ValidUTF8String(m[k])]

(* json.Marshal(entry): `omitempty` drops "", 0 and maps of length 0;      *)
(* `headers` has no omitempty, a nil map is written as null; every string  *)
(* is written as valid UTF-8.                                              *)
Marshal(h, e) ==
    [id |-> ValidUTF8String(e.ID), timestamp |-> e.Timestamp,
     method |-> ValidUTF8String(e.Method),
     domain |-> ValidUTF8String(e.Domain),
     path |-> ValidUTF8String(e.Path),
     headers |-> IF e.Headers = NilRef THEN [null |-> TRUE]
                 ELSE [null |-> FALSE, m |-> ValidUTF8Map(h[e.Headers])],
     pcap_file |-> e.PcapFile]
    @@ (IF e.Body # <<>> THEN [body |-> ToValidUTF8(e.Body)] ELSE EmptyMap)
    @@ (IF e.ResponseStatus # 0
        THEN [response_status |-> e.ResponseStatus] ELSE EmptyMap)
    @@ (IF e.ResponseHeaders # NilRef /\ DOMAIN h[e.ResponseHeaders] # {}
        THEN [response_headers |-> ValidUTF8Map(h[e.ResponseHeaders])]
        ELSE EmptyMap)
    @@ (IF e.ResponseBody # <<>>
        THEN [response_body |-> ToValidUTF8(e.ResponseBody)] ELSE EmptyMap)

(* Tokens of the file. *)
NL == [kind |-> "nl"]
Frag == [kind |-> "frag"]
Json(obj) == [kind |-> "json", obj |-> obj]

(* json.Unmarshal(line, &req) fails unless the line is one JSON value. *)
UnmarshalFails(line) == ~(Len(line) = 1 /\ line[1].kind = "json")

(* json.Unmarshal into a zero RequestLog: absent fields keep their zero    *)
(* value, an object becomes a freshly allocated map, null leaves nil.      *)
Unmarshal(h, line) ==
    LET obj == line[1].obj
        F(name, zero) == IF name \in DOMAIN obj THEN obj[name] ELSE zero
        hm == IF "headers" \in DOMAIN obj /\ ~obj.headers.null
              THEN NewMap(h, obj.headers.m)
              ELSE [ref |-> NilRef, heap |-> h]
        rm == IF "response_headers" \in DOMAIN obj
              THEN NewMap(hm.heap, obj.response_headers)
              ELSE [ref |-> NilRef, heap |-> hm.heap]
    IN  [req |-> [ID |-> F("id", ""), Timestamp |-> F("timestamp", 0),
                  Method |-> F("method", ""), Domain |-> F("domain", ""),
                  Path |-> F("path", ""), Headers |-> hm.ref,
                  Body |-> F("body", <<>>),
                  ResponseStatus |-> F("response_status", 0),
                  ResponseHeaders |-> rm.ref,
                  ResponseBody |-> F("response_body", <<>>),
                  PcapFile |-> F("pcap_file", <<>>)],
         heap |-> rm.heap]

----------------------------------------------------------------------------
(* splitLines, logger.go:92-105: cut at every newline; the bytes after the *)
(* last newline are a line too when there are any.                         *)

RECURSIVE splitFrom(_, _, _)
splitFrom(data, start, i) ==
    IF i > Len(data)
    THEN IF start <= Len(data) THEN <<SubSeq(data, start, Len(data))>> ELSE <<>>
    ELSE IF data[i] = NL
         THEN <<SubSeq(data, start, i - 1)>> \o splitFrom(data, i + 1, i + 1)
         ELSE splitFrom(data, start, i + 1)

splitLines(data) == splitFrom(data, 1, 1)

----------------------------------------------------------------------------
(* loadExistingLogs, logger.go:66-90: every line that is not empty and     *)
(* unmarshals is appended to l.requests, in file order.                    *)

(* Variant of loadLines: gives up at the first line that does not parse. *)
RECURSIVE loadLinesAbort(_, _, _)
loadLinesAbort(lines, reqs, h) ==
    IF lines = <<>>
    THEN [requests |-> reqs, heap |-> h]
    ELSE LET line == Head(lines)
         IN  IF Len(line) = 0
             THEN loadLinesAbort(Tail(lines), reqs, h)
             ELSE IF UnmarshalFails(line)
                  THEN [requests |-> reqs, heap |-> h]
                  ELSE LET u == Unmarshal(h, line)
                       IN  loadLinesAbort(Tail(lines), Append(reqs, u.req),
                                          u.heap)

RECURSIVE loadLines(_, _, _)
loadLines(lines, reqs, h) ==
    IF lines = <<>>
    THEN [requests |-> reqs, heap |-> h]
    ELSE LET line == Head(lines)
         IN  IF Len(line) = 0 \/ UnmarshalFails(line)
             THEN loadLines(Tail(lines), reqs, h)
             ELSE LET u == Unmarshal(h, line)
                  IN  loadLines(Tail(lines), Append(reqs, u.req), u.heap)

loadExistingLogs(data) == loadLines(splitLines(data), <<>>, EmptyMap)

----------------------------------------------------------------------------
(* The request and response values handed to the Logger. *)

NoBody == [present |-> FALSE, bytes |-> <<>>, failAt |-> -1]
BodyOf(bytes) == [present |-> TRUE, bytes |-> bytes, failAt |-> -1]
BrokenBody(bytes, n) == [present |-> TRUE, bytes |-> bytes, failAt |-> n]

(* io.ReadAll: all the bytes, or the bytes before the failure and an error *)
ReadAll(body) ==
    IF body.failAt >= 0
    THEN [data |-> Take(body.bytes, body.failAt), err |-> TRUE]
    ELSE [data |-> body.bytes, err |-> FALSE]

Bytes(n) == [i \in 1..n |-> "a"]

(* A text one byte over the cap whose last character has two bytes, so     *)
(* that the cut of logger.go:134 falls inside it; and a body that is no    *)
(* text.                                                                   *)
CutInsideChar == Bytes(MaxBodyLog - 1) \o <<"xc3", "xa9">>
Binary == <<"xff">>

Secret == "Bearer secret123"

HeaderNames ==
    {"Authorization", "authorization", "X-Api-Key", "x-api-key", "API-KEY",
     "Api-Key", "Content-Type"}

Lower(name) ==
    CASE name \in {"Authorization", "authorization"} -> "authorization"
      [] name \in {"X-Api-Key", "x-api-key"} -> "x-api-key"
      [] name \in {"API-KEY", "Api-Key"} -> "api-key"
      [] name = "Content-Type" -> "content-type"
      [] OTHER -> name

DenyList == {"authorization", "x-api-key", "api-key"}

HeaderValues == {<<>>, <<Secret>>, <<Secret, "v2">>}

WideHeaders ==
    {EmptyMap}
    \cup {n :> v : n \in HeaderNames, v \in HeaderValues}
    \cup {"Content-Type" :> <<BinaryValue>>}
    \cup {("Authorization" :> <<Secret>>) @@ ("Content-Type" :> <<"text/plain">>),
          ("x-api-key" :> <<Secret>>) @@ ("Content-Type" :> <<"text/plain">>)}

WideBodies ==
    {NoBody} \cup {BodyOf(Bytes(n)) : n \in 0..MaxBodyLen}
             \cup {BrokenBody(Bytes(MaxBodyLen), 1)}
             \cup {BodyOf(CutInsideChar), BodyOf(Binary)}

Methods == {"GET", "POST", "PUT", "PATCH", "DELETE"}

Request(m, hd, b) ==
    [Method |-> m, Host |-> "example.com", Path |-> "/a", Header |-> hd,
     Body |-> b]

WideRequests == {Request(m, hd, b) : m \in Methods, hd \in WideHeaders,
                                     b \in WideBodies}

LogRequests ==
    {Request("POST", "Authorization" :> <<Secret>>, BodyOf(CutInsideChar))}

Requests == IF mode = "inputs" THEN WideRequests ELSE LogRequests

NilResponse == [nil |-> TRUE]
Response(st, hd, b) == [nil |-> FALSE, StatusCode |-> st, Header |-> hd, Body |-> b]

LogResponses ==
    {Response(200, "Content-Type" :> <<"text/plain">>, BodyOf(Bytes(MaxBodyLog + 1))),
     Response(500, "Set-Cookie" :> <<"c1", "c2">>, BodyOf(Binary))}

WideResponses ==
    LogResponses
    \cup {NilResponse,
          Response(204, EmptyMap, NoBody),
          Response(404, "X-Empty" :> <<>>, BrokenBody(Bytes(MaxBodyLen), 1))}

Responses == IF mode = "inputs" THEN WideResponses ELSE LogResponses

(* uuid.New().String()[:8]: 32 random bits, here one of a few values. *)
UUIDPrefixes == {"a", "b"}

(* ids a caller may pass to LogResponse *)
CallerIds == UUIDPrefixes

(* Outcomes of l.logFile.Write: all bytes, none, or a part of the line. *)
WriteOutcomes == {"ok", "none", "partial", "nonl"}

Write(data, line, outcome) ==
    CASE outcome = "ok" -> data \o <<line, NL>>
      [] outcome = "none" -> data
      [] outcome = "partial" -> Append(data, Frag)
      [] outcome = "nonl" -> Append(data, line)

----------------------------------------------------------------------------
(* The pieces of LogRequest and LogResponse. *)

(* logger.go:113-123: the first value of every header that has one, the    *)
(* fixed marker under the three keys the code compares with.               *)
RedactHeaders(hd) ==
    [key \in {k \in DOMAIN hd : Len(hd[k]) > 0} |->
        IF key = "Authorization" \/ key = "X-Api-Key" \/ key = "Api-Key"
        THEN Redacted
        ELSE hd[key][1]]

(* logger.go:199-204 *)
FirstValues(hd) ==
    [key \in {k \in DOMAIN hd : Len(hd[k]) > 0} |-> hd[key][1]]

(* Variant of LimitBody: a body of exactly MaxBodyLog bytes is cut too. *)
LimitBodyAtCap(bodyBytes) ==
    IF Len(bodyBytes) >= MaxBodyLog
    THEN Append(SubSeq(bodyBytes, 1, MaxBodyLog), Truncated)
    ELSE bodyBytes

(* logger.go:133-137 and 214-218 *)
LimitBody(bodyBytes) ==
    IF Len(bodyBytes) > MaxBodyLog
    THEN Append(SubSeq(bodyBytes, 1, MaxBodyLog), Truncated)
    ELSE bodyBytes

(* logger.go:126-139: read only for POST, PUT and PATCH; empty on error *)
RequestBody(req) ==
    IF req.Body.present /\ req.Method \in {"POST", "PUT", "PATCH"}
    THEN LET r == ReadAll(req.Body)
         IN  IF ~r.err THEN LimitBody(r.data) ELSE <<>>
    ELSE <<>>

(* logger.go:207-220 *)
ResponseBodyOf(resp) ==
    IF resp.Body.present
    THEN LET r == ReadAll(resp.Body)
         IN  IF ~r.err THEN LimitBody(r.data) ELSE <<>>
    ELSE <<>>

(* A reader of which the first n bytes have been read. *)
Consumed(body, n) ==
    [present |-> body.present, bytes |-> Drop(body.bytes, n),
     failAt |-> IF body.failAt >= 0 THEN body.failAt - n ELSE -1]

(* logger.go:127-131: the body left on the request when LogRequest returns: *)
(* a new reader over the bytes read, set only when the read succeeded.     *)
RequestBodyLeft(req) ==
    IF req.Body.present /\ req.Method \in {"POST", "PUT", "PATCH"}
    THEN LET r == ReadAll(req.Body)
         IN  IF ~r.err THEN BodyOf(r.data)
                       ELSE Consumed(req.Body, Len(r.data))
    ELSE req.Body

(* logger.go:208-212: the same for the response *)
ResponseBodyLeft(resp) ==
    IF resp.Body.present
    THEN LET r == ReadAll(resp.Body)
         IN  IF ~r.err THEN BodyOf(r.data)
                       ELSE Consumed(resp.Body, Len(r.data))
    ELSE resp.Body

(* logger.go:142 *)
PcapName(t) == <<"capture_", t, ".pcap">>

(* Variant of KeepLast: keeps the head of the slice instead of its tail. *)
KeepFirst(reqs) == SubSeq(reqs, 1, MaxLoggedRequests)

(* logger.go:174: the last MaxLoggedRequests elements *)
KeepLast(reqs) == SubSeq(reqs, Len(reqs) - MaxLoggedRequests + 1, Len(reqs))

(* logger.go:175-178: a later element overwrites an earlier one's entry *)
(* A lookup left as it was before the slice was cut by one record. *)
IdxBeforeTrim(reqs) ==
    [id \in {reqs[i].ID : i \in 1..Len(reqs)} |->
        CHOOSE i \in 1..Len(reqs) :
            /\ reqs[i].ID = id
            /\ \A j \in (i + 1)..Len(reqs) : reqs[j].ID # id]

RebuildIdx(reqs) ==
    [id \in {reqs[i].ID : i \in 1..Len(reqs)} |->
        CHOOSE i \in 0..(Len(reqs) - 1) :
            /\ reqs[i + 1].ID = id
            /\ \A j \in (i + 1)..(Len(reqs) - 1) : reqs[j + 1].ID # id]

(* Variant of LookupIdx: a missing id reads as the zero index of a lookup   *)
(* that has entries (`ok` is not looked at).                               *)
LookupIdxNoOk(m, id) ==
    IF id \in DOMAIN m
    THEN [idx |-> m[id], ok |-> TRUE]
    ELSE [idx |-> 0, ok |-> m # EmptyMap]

(* idx, ok := l.requestIdx[requestID], logger.go:193 *)
LookupIdx(m, id) ==
    IF id \in DOMAIN m
    THEN [idx |-> m[id], ok |-> TRUE]
    ELSE [idx |-> 0, ok |-> FALSE]

(* logger.go:199-204, 224: the headers go into a map made for this call,    *)
(* which then replaces the map of the record `e`.                          *)
ResponseHeadersMap(h, e, content) == NewMap(h, content)

(* Variant of UpdateAt: the completed record is taken out of its place and *)
(* put at the end of the slice.                                            *)
UpdateMoveToEnd(reqs, idx, updated) ==
    Append(SubSeq(reqs, 1, idx) \o SubSeq(reqs, idx + 2, Len(reqs)), updated)

(* logger.go:223-225: the three assignments to l.requests[idx] *)
UpdateAt(reqs, idx, updated) == [reqs EXCEPT ![idx + 1] = updated]

(* m[k] = v on a Go map *)
Put(m, k, v) == (k :> v) @@ m

----------------------------------------------------------------------------
(* State machine. *)

(* The sessions: goroutines of proxy connections and of the web server.   *)
Sessions == 1..MaxSessions
Idle == [pc |-> "idle"]

(* A file of the logs directory: whether it exists, whether it can be     *)
(* read, and its content as a sequence of tokens.                          *)
NoFile == [exists |-> FALSE, readable |-> FALSE, data |-> <<>>]
FileOf(data) == [exists |-> TRUE, readable |-> TRUE, data |-> data]

(* What the environment may do in a run, by `mode`:                        *)
(*   "log"      one process, calls and snapshots, every write succeeds;    *)
(*   "restart"  the process ends and is started again, writes may fail;    *)
(*   "close"    one process whose Logger is closed and still called;       *)
(*   "inputs"   one LogRequest and one LogResponse, on the wide input sets *)
(*   "sessions" calls of several sessions at once, every write succeeds,   *)
(*              no more records than the working set holds;                *)
(*   "web"      requests to the web server's capture download;             *)
(*   "ca"       process starts, each calling LoadOrCreateCA.               *)
RecordBudget ==
    CASE mode = "inputs" -> 1
      [] mode \in {"sessions", "close"} -> MaxLoggedRequests
      [] OTHER -> MaxRecordCalls
CompleteBudget == IF mode = "log" THEN MaxCompleteCalls ELSE 1
SnapshotBudget == IF mode = "restart" THEN 0 ELSE MaxSnapshots
StartBudget == IF mode \in {"log", "close"} THEN 1 ELSE MaxStarts
WriteFailureBudget ==
    IF mode \in {"log", "sessions", "close"} THEN 0 ELSE MaxWriteFailures

(* A line written by an earlier run of the program. *)
OldLine ==
    Json([id |-> "a", timestamp |-> 0, method |-> "GET",
          domain |-> "example.com", path |-> "/old",
          headers |-> [null |-> FALSE, m |-> EmptyMap],
          pcap_file |-> PcapName(0)])

InitialFiles ==
    {<<>>, <<OldLine, NL, NL, Frag, NL>>}

InitCommon ==
    /\ up = FALSE
    /\ closed = FALSE
    /\ requests = <<>>
    /\ requestIdx = EmptyMap
    /\ heap = EmptyMap
    /\ now = 1
    /\ snapshot = <<>>
    /\ snapView = <<>>
    /\ created = <<>>
    /\ restored = 0
    /\ last = [op |-> "none"]
    /\ calls = [start |-> 0, record |-> 0, complete |-> 0, snap |-> 0,
                wfail |-> 0]
    /\ web = [op |-> "none"]
    /\ ca = [op |-> "none", gen |-> 0, returned |-> <<>>]
    /\ mu = {}
    /\ sess = [s \in Sessions |-> Idle]

Init ==
    /\ mode \in {"log", "restart", "close"}
    /\ logFile \in InitialFiles
    /\ disk = {}
    /\ caFiles = [cert |-> NoFile, key |-> NoFile]
    /\ InitCommon

InitInputs ==
    /\ mode = "inputs"
    /\ logFile = <<>>
    /\ disk = {}
    /\ caFiles = [cert |-> NoFile, key |-> NoFile]
    /\ InitCommon

(* NewLogger, logger.go:42-64: open requests.jsonl for appending (creating *)
(* it when missing), start from an empty slice and an empty lookup, then   *)
(* loadExistingLogs, which fills the slice and leaves the lookup empty.    *)
NewLogger ==
    /\ ~up
    /\ calls.start < StartBudget
    /\ LET l == loadExistingLogs(logFile)
       IN  /\ requests' = l.requests
           /\ heap' = l.heap
           /\ restored' = Len(l.requests)
    /\ requestIdx' = EmptyMap
    /\ up' = TRUE
    /\ closed' = FALSE
    /\ created' = <<>>
    /\ last' = [op |-> "NewLogger"]
    /\ calls' = [calls EXCEPT !.start = @ + 1]
    /\ UNCHANGED <<mode, logFile, now, snapshot, snapView>>
    /\ UNCHANGED others

(* LogRequest, logger.go:108-182 *)
LogRequest ==
    /\ up
    /\ calls.record < RecordBudget
    /\ \E req \in Requests, uuid \in UUIDPrefixes, w \in WriteOutcomes :
          /\ closed => w = "none"
          /\ (~closed /\ w # "ok") => calls.wfail < WriteFailureBudget
          /\ LET hm == NewMap(heap, RedactHeaders(req.Header))
                 entry == [ID |-> uuid, Timestamp |-> now,
                           Method |-> req.Method, Domain |-> req.Host,
                           Path |-> req.Path, Headers |-> hm.ref,
                           Body |-> RequestBody(req), ResponseStatus |-> 0,
                           ResponseHeaders |-> NilRef, ResponseBody |-> <<>>,
                           PcapFile |-> PcapName(now)]
                 data == Marshal(hm.heap, entry)
                 appended == Append(requests, entry)
                 idx == Put(requestIdx, entry.ID, Len(appended) - 1)
             IN  /\ heap' = hm.heap
                 /\ logFile' = Write(logFile, Json(data), w)
                 /\ IF Len(appended) > MaxLoggedRequests
                    THEN /\ requests' = KeepLast(appended)
                         /\ requestIdx' = RebuildIdx(KeepLast(appended))
                    ELSE /\ requests' = appended
                         /\ requestIdx' = idx
                 /\ created' = Append(created, View(hm.heap, entry))
                 /\ last' = [op |-> "LogRequest", id |-> entry.ID,
                             req |-> req, w |-> w,
                             left |-> RequestBodyLeft(req)]
          /\ calls' = [calls EXCEPT !.record = @ + 1,
                                    !.wfail = IF closed \/ w = "ok"
                                              THEN @ ELSE @ + 1]
    /\ now' = now + 1
    /\ UNCHANGED <<mode, up, closed, snapshot, snapView, restored>>
    /\ UNCHANGED others

(* LogResponse, logger.go:185-238 *)
LogResponse ==
    /\ up
    /\ calls.complete < CompleteBudget
    /\ \E requestID \in CallerIds, resp \in Responses, w \in WriteOutcomes :
          /\ (resp.nil \/ ~LookupIdx(requestIdx, requestID).ok) => w = "ok"
          /\ (~resp.nil /\ LookupIdx(requestIdx, requestID).ok /\ closed)
                => w = "none"
          /\ (~closed /\ w # "ok") => calls.wfail < WriteFailureBudget
          /\ IF resp.nil \/ ~LookupIdx(requestIdx, requestID).ok
             THEN /\ UNCHANGED <<logFile, requests, heap>>
                  /\ last' = [op |-> "LogResponse", id |-> requestID,
                              resp |-> resp, ok |-> FALSE, w |-> w,
                              left |-> IF resp.nil THEN NoBody
                                                   ELSE resp.Body]
             ELSE LET idx == LookupIdx(requestIdx, requestID).idx
                      hm == ResponseHeadersMap(heap, requests[idx + 1],
                                               FirstValues(resp.Header))
                      updated == [requests[idx + 1] EXCEPT
                                     !.ResponseStatus = resp.StatusCode,
                                     !.ResponseHeaders = hm.ref,
                                     !.ResponseBody = ResponseBodyOf(resp)]
                      data == Marshal(hm.heap, updated)
                  IN  /\ heap' = hm.heap
                      /\ requests' = UpdateAt(requests, idx, updated)
                      /\ logFile' = Write(logFile, Json(data), w)
                      /\ last' = [op |-> "LogResponse", id |-> requestID,
                                  resp |-> resp, ok |-> TRUE, w |-> w,
                                  left |-> ResponseBodyLeft(resp)]
          /\ calls' = [calls EXCEPT !.complete = @ + 1,
                                    !.wfail = IF closed \/ w = "ok"
                                              THEN @ ELSE @ + 1]
    /\ UNCHANGED <<mode, up, closed, requestIdx, now, snapshot, snapView, created,
                   restored>>
    /\ UNCHANGED others

(* GetRequests, logger.go:241-249: a new slice holding copies of the       *)
(* RequestLog values; the copies share the maps of the originals.          *)
GetRequests ==
    /\ up
    /\ calls.snap < SnapshotBudget
    /\ snapshot' = [i \in 1..Len(requests) |-> requests[i]]
    /\ snapView' = ViewAll(heap, requests)
    /\ last' = [op |-> "GetRequests"]
    /\ calls' = [calls EXCEPT !.snap = @ + 1]
    /\ UNCHANGED <<mode, up, closed, logFile, requests, requestIdx, heap, now,
                   created, restored>>
    /\ UNCHANGED others

(* Close, logger.go:252-254: l.logFile.Close() and nothing else.  The      *)
(* slice and the lookup stay and the Logger can still be called; every     *)
(* later Write to the closed file fails and writes nothing.                *)
Close ==
    /\ up
    /\ mode = "close"
    /\ closed' = TRUE
    /\ last' = [op |-> "Close"]
    /\ UNCHANGED <<mode, up, logFile, requests, requestIdx, heap, now,
                   snapshot, snapView, created, restored, calls>>
    /\ UNCHANGED others

(* The process ends (main.go:85, or it is stopped): the file stays,        *)
(* everything the process held in memory is gone.                          *)
Exit ==
    /\ up
    /\ mode = "restart"
    /\ up' = FALSE
    /\ closed' = FALSE
    /\ requests' = <<>>
    /\ requestIdx' = EmptyMap
    /\ heap' = EmptyMap
    /\ snapshot' = <<>>
    /\ snapView' = <<>>
    /\ created' = <<>>
    /\ restored' = 0
    /\ last' = [op |-> "Exit"]
    /\ UNCHANGED <<mode, logFile, now, calls>>
    /\ UNCHANGED others

Next ==
    \/ NewLogger
    \/ LogRequest
    \/ LogResponse
    \/ GetRequests
    \/ Close
    \/ Exit

Spec == Init /\ [][Next]_vars

(* One process on the wide input sets. *)
NextInputs ==
    \/ NewLogger
    \/ LogRequest
    \/ LogResponse
    \/ GetRequests

SpecInputs == InitInputs /\ [][NextInputs]_vars

----------------------------------------------------------------------------
(* The web server's capture download, ca.go:208-234.                       *)
(*                                                                         *)
(* A name is a sequence of tokens: "/" is the path separator, every other  *)
(* token is a run of characters without a separator.  "x.pcap" ends in     *)
(* ".pcap", "k" and ".." do not; an element made of the one token ".." is  *)
(* the parent directory.  A cleaned path is a sequence of elements, each a *)
(* non-empty sequence of tokens.                                           *)
Sep == "/"
NameTokens == {Sep, "..", "x.pcap", "k"}

RECURSIVE NamesUpTo(_)
NamesUpTo(n) ==
    IF n = 0 THEN {<<>>}
    ELSE LET shorter == NamesUpTo(n - 1)
         IN  shorter \cup {Append(s, t) : s \in {u \in shorter : Len(u) = n - 1},
                                           t \in NameTokens}

(* r.URL.Path with the prefix "/api/pcap/" taken off (ca.go:210) *)
PcapNames == NamesUpTo(MaxNameLen)

(* w.logsDir *)
LogsDir == <<<<"logs">>>>

(* Files that may exist: a capture in the logs directory, one in a         *)
(* directory below it, one beside the logs directory, and a file of the    *)
(* logs directory that is no capture.                                      *)
DiskFiles ==
    {LogsDir \o <<<<"x.pcap">>>>,
     LogsDir \o <<<<"k">>, <<"x.pcap">>>>,
     <<<<"x.pcap">>>>,
     LogsDir \o <<<<"k">>>>}

(* filepath.Clean's treatment of one element put after a cleaned path *)
PushElem(path, elem) ==
    IF elem = <<>> \/ elem = <<".">> THEN path
    ELSE IF elem = <<"..">>
         THEN (IF path = <<>> THEN <<>> ELSE SubSeq(path, 1, Len(path) - 1))
         ELSE Append(path, elem)

RECURSIVE CleanFrom(_, _, _)
CleanFrom(path, elem, toks) ==
    IF toks = <<>> THEN PushElem(path, elem)
    ELSE IF Head(toks) = Sep
         THEN CleanFrom(PushElem(path, elem), <<>>, Tail(toks))
         ELSE CleanFrom(path, Append(elem, Head(toks)), Tail(toks))

(* filepath.Join(dir, name), ca.go:223: Clean(dir + "/" + name) *)
Join(dir, name) == CleanFrom(dir, <<>>, name)

RECURSIVE TrimSeps(_)
TrimSeps(name) ==
    IF name # <<>> /\ name[Len(name)] = Sep
    THEN TrimSeps(SubSeq(name, 1, Len(name) - 1))
    ELSE name

RECURSIVE AfterLastSep(_)
AfterLastSep(name) ==
    IF name = <<>> \/ name[Len(name)] = Sep THEN <<>>
    ELSE Append(AfterLastSep(SubSeq(name, 1, Len(name) - 1)), name[Len(name)])

(* The name handed on as it came. *)
BaseAsIs(name) == name

(* filepath.Base, ca.go:217: "." for the empty name, trailing separators   *)
(* dropped, then the part after the last separator; "/" when the name was  *)
(* made of separators only.                                                *)
Base(name) ==
    IF name = <<>> THEN <<".">>
    ELSE IF TrimSeps(name) = <<>> THEN <<Sep>>
         ELSE AfterLastSep(TrimSeps(name))

(* A suffix test that lets every name pass. *)
AnySuffix(name) == TRUE

(* strings.HasSuffix(filename, ".pcap"), ca.go:218 *)
HasPcapSuffix(name) == name # <<>> /\ name[Len(name)] = "x.pcap"

RECURSIVE ElementsFrom(_, _)
ElementsFrom(elem, toks) ==
    IF toks = <<>> THEN {elem}
    ELSE IF Head(toks) = Sep
         THEN {elem} \cup ElementsFrom(<<>>, Tail(toks))
         ELSE ElementsFrom(Append(elem, Head(toks)), Tail(toks))

(* http.ServeFile, ca.go:233, answers 400 "invalid URL path" when an       *)
(* element of r.URL.Path is "..", whatever file it was given.              *)
containsDotDot(name) == <<"..">> \in ElementsFrom(<<>>, name)

(* The answer of handlePcapDownload to a request for `name`: the status,   *)
(* the paths handed to os.Stat, and the path of the file served, if any.   *)
PcapAnswer(files, name) ==
    LET filename == Base(name)
        pcapPath == Join(LogsDir, filename)
    IN  IF name = <<>>
        THEN [status |-> 400, stat |-> {}, served |-> {}]
        ELSE IF ~HasPcapSuffix(filename)
        THEN [status |-> 400, stat |-> {}, served |-> {}]
        ELSE IF pcapPath \notin files
        THEN [status |-> 404, stat |-> {pcapPath}, served |-> {}]
        ELSE IF containsDotDot(name)
        THEN [status |-> 400, stat |-> {pcapPath}, served |-> {}]
        ELSE [status |-> 200, stat |-> {pcapPath}, served |-> {pcapPath}]

InitWeb ==
    /\ mode = "web"
    /\ logFile = <<>>
    /\ disk \in SUBSET DiskFiles
    /\ caFiles = [cert |-> NoFile, key |-> NoFile]
    /\ InitCommon

handlePcapDownload ==
    /\ mode = "web"
    /\ \E name \in PcapNames :
          web' = [op |-> "handlePcapDownload", name |-> name,
                  answer |-> PcapAnswer(disk, name)]
    /\ UNCHANGED <<mode, disk, caFiles, ca, mu, sess>>
    /\ UNCHANGED loggerVars

NextWeb == handlePcapDownload

SpecWeb == InitWeb /\ [][NextWeb]_vars

----------------------------------------------------------------------------
(* The certificate authority, ca.go:25-137.                                *)
(*                                                                         *)
(* The content of an artifact is a sequence of tokens: text that is no PEM *)
(* block, or a PEM block with its type and its DER bytes.  DER bytes are   *)
(* a certificate or a PKCS1 key of the root generated as number id, or     *)
(* bytes that parse as neither.                                            *)
Junk == [t |-> "junk"]
Block(type, der) == [t |-> "block", type |-> type, der |-> der]
CertDER(id) == [what |-> "cert", id |-> id]
KeyDER(id) == [what |-> "key", id |-> id]
BadDER == [what |-> "bad", id |-> 0]

(* The newline that ends the END line of a PEM block. *)
EOL == [t |-> "eol"]

(* pem.EncodeToMemory, ca.go:116-117 *)
EncodeCert(id) == <<Block("CERTIFICATE", CertDER(id)), EOL>>
EncodeKey(id) == <<Block("RSA PRIVATE KEY", KeyDER(id)), EOL>>

(* pem.Decode, ca.go:51, 61: the first PEM block of the data; what stands  *)
(* before and after it is skipped; nil when there is none.                 *)
RECURSIVE pemDecode(_)
pemDecode(data) ==
    IF data = <<>> THEN [nil |-> TRUE]
    ELSE IF Head(data).t = "block"
         THEN [nil |-> FALSE, Bytes |-> Head(data).der]
         ELSE pemDecode(Tail(data))

(* x509.ParseCertificate, ca.go:56, and x509.ParsePKCS1PrivateKey, :66 *)
ParseCertificate(der) == [err |-> der.what # "cert", id |-> der.id]
ParsePKCS1PrivateKey(der) == [err |-> der.what # "key", id |-> der.id]

Failed(msg) == [err |-> msg]
Loaded(cert, key, certPEM, keyPEM) ==
    [err |-> "", Cert |-> cert, Key |-> key,
     CertPEM |-> certPEM, KeyPEM |-> keyPEM]

(* loadCA, ca.go:40-77 *)
loadCA(files) ==
    IF ~files.cert.readable THEN Failed("failed to read CA cert")
    ELSE IF ~files.key.readable THEN Failed("failed to read CA key")
    ELSE LET certPEM == files.cert.data
             keyPEM == files.key.data
             certBlock == pemDecode(certPEM)
             keyBlock == pemDecode(keyPEM)
         IN  IF certBlock.nil THEN Failed("failed to decode CA cert PEM")
             ELSE IF ParseCertificate(certBlock.Bytes).err
             THEN Failed("failed to parse CA cert")
             ELSE IF keyBlock.nil THEN Failed("failed to decode CA key PEM")
             ELSE IF ParsePKCS1PrivateKey(keyBlock.Bytes).err
             THEN Failed("failed to parse CA key")
             ELSE Loaded(ParseCertificate(certBlock.Bytes).id,
                         ParsePKCS1PrivateKey(keyBlock.Bytes).id,
                         certPEM, keyPEM)

(* os.WriteFile, ca.go:120, 123: the file is opened (created when it is   *)
(* missing, truncated when it exists), written and closed.  A file the     *)
(* call creates gets the permissions asked for and can be read; a file     *)
(* that was there keeps its permissions, so one that could not be read     *)
(* still cannot.  "none": it could not be opened and stays as it was;      *)
(* "partial": it was truncated and the write stopped part-way; "nonl":     *)
(* the write stopped before the last byte, the closing newline.            *)
WriteFile(file, data, w) ==
    LET opened(d) == [exists |-> TRUE,
                      readable |-> IF file.exists THEN file.readable ELSE TRUE,
                      data |-> d]
    IN  CASE w = "ok" -> opened(data)
          [] w = "none" -> file
          [] w = "partial" -> opened(<<Junk>>)
          [] w = "nonl" -> opened(SubSeq(data, 1, Len(data) - 1))

(* createCA, ca.go:79-137, for the root generated as number id: the        *)
(* result, the artifacts afterwards and the artifacts written.             *)
createCA(files, id, wc, wk) ==
    LET certPEM == EncodeCert(id)
        keyPEM == EncodeKey(id)
        f1 == [files EXCEPT !.cert = WriteFile(@, certPEM, wc)]
        f2 == [f1 EXCEPT !.key = WriteFile(@, keyPEM, wk)]
    IN  IF wc # "ok"
        THEN [ret |-> Failed("failed to write CA cert"), files |-> f1,
              wrote |-> {"cert"}, gen |-> id]
        ELSE IF wk # "ok"
        THEN [ret |-> Failed("failed to write CA key"), files |-> f2,
              wrote |-> {"cert", "key"}, gen |-> id]
        ELSE [ret |-> Loaded(id, id, certPEM, keyPEM), files |-> f2,
              wrote |-> {"cert", "key"}, gen |-> id]

(* A Stat that finds nothing. *)
StatNotFound(file) == FALSE

(* os.Stat(path) returns no error, ca.go:29-30 *)
Stat(file) == file.exists

(* A LoadOrCreateCA that makes a new root when the old one does not load. *)
LoadElseCreate(files, gen, wc, wk) ==
    IF Stat(files.cert) /\ Stat(files.key) /\ loadCA(files).err = ""
    THEN [ret |-> loadCA(files), files |-> files, wrote |-> {}, gen |-> gen]
    ELSE createCA(files, gen + 1, wc, wk)

(* LoadOrCreateCA, ca.go:25-38 *)
LoadOrCreate(files, gen, wc, wk) ==
    IF Stat(files.cert) /\ Stat(files.key)
    THEN [ret |-> loadCA(files), files |-> files, wrote |-> {}, gen |-> gen]
    ELSE createCA(files, gen + 1, wc, wk)

(* Artifacts a start may find: none, one written by an earlier run (root   *)
(* number 0), one that cannot be read, and ones edited or cut short.       *)
CertFilesAtStart ==
    {NoFile, FileOf(EncodeCert(0)), FileOf(<<Junk>>),
     FileOf(<<Junk>> \o EncodeCert(0)),
     FileOf(<<Block("CERTIFICATE", BadDER)>>),
     [FileOf(EncodeCert(0)) EXCEPT !.readable = FALSE]}

KeyFilesAtStart ==
    {NoFile, FileOf(EncodeKey(0)), FileOf(<<Junk>>),
     FileOf(<<Junk>> \o EncodeKey(0)),
     FileOf(<<Block("RSA PRIVATE KEY", BadDER)>>),
     [FileOf(EncodeKey(0)) EXCEPT !.readable = FALSE]}

InitCA ==
    /\ mode = "ca"
    /\ logFile = <<>>
    /\ disk = {}
    /\ caFiles \in [cert : CertFilesAtStart, key : KeyFilesAtStart]
    /\ InitCommon

(* main.go:25-29: a process start calls LoadOrCreateCA and ends when it    *)
(* returns an error.                                                       *)
LoadOrCreateCA ==
    /\ mode = "ca"
    /\ Len(ca.returned) + (IF ca.op = "none" THEN 0 ELSE ca.failed) < MaxCAStarts
    /\ \E wc \in WriteOutcomes, wk \in WriteOutcomes :
          LET r == LoadOrCreate(caFiles, ca.gen, wc, wk)
          IN  /\ caFiles' = r.files
              /\ ca' = [op |-> "LoadOrCreateCA", ret |-> r.ret,
                        before |-> caFiles, genBefore |-> ca.gen,
                        wrote |-> r.wrote, gen |-> r.gen,
                        returned |-> IF r.ret.err = "" THEN Append(ca.returned, r.ret)
                                                       ELSE ca.returned,
                        failed |-> (IF ca.op = "none" THEN 0 ELSE ca.failed)
                                   + (IF r.ret.err = "" THEN 0 ELSE 1)]
    /\ UNCHANGED <<mode, disk, web, mu, sess>>
    /\ UNCHANGED loggerVars

NextCA == LoadOrCreateCA

SpecCA == InitCA /\ [][NextCA]_vars

----------------------------------------------------------------------------
(* Calls of several sessions at once.  Each call enters with l.mu.Lock()   *)
(* and leaves, by the deferred l.mu.Unlock(), when it returns; what it     *)
(* does in between is taken in the steps below, in the order of the code.  *)

(* A mutex that is never found held. *)
FreeAlways(m) == TRUE

(* sync.Mutex: Lock returns when no one holds the mutex (logger.go:109,    *)
(* 190, 242).                                                              *)
Free(m) == m = {}

At(s, pc, op) == sess[s].pc = pc /\ sess[s].op = op

Unlock(s) == mu' = mu \ {s}

InitSessions ==
    /\ mode = "sessions"
    /\ logFile = <<>>
    /\ disk = {}
    /\ caFiles = [cert |-> NoFile, key |-> NoFile]
    /\ InitCommon

(* main.go:59-64: a request reaches the proxy, the handler calls LogRequest *)
CallLogRequest(s) ==
    /\ up
    /\ sess[s] = Idle
    /\ calls.record < RecordBudget
    /\ \E req \in Requests :
          sess' = [sess EXCEPT ![s] = [pc |-> "lock", op |-> "LogRequest",
                                       req |-> req]]
    /\ calls' = [calls EXCEPT !.record = @ + 1]
    /\ UNCHANGED <<mode, up, closed, logFile, requests, requestIdx, heap, now,
                   snapshot, snapView, created, restored, last>>
    /\ UNCHANGED <<disk, web, caFiles, ca, mu>>

(* main.go:67-72 and logger.go:185-188: the handler calls LogResponse,     *)
(* which returns at once for a nil response                                *)
CallLogResponse(s) ==
    /\ up
    /\ sess[s] = Idle
    /\ calls.complete < CompleteBudget
    /\ \E requestID \in CallerIds, resp \in Responses :
          IF resp.nil
          THEN /\ last' = [op |-> "LogResponse", id |-> requestID,
                           resp |-> resp, ok |-> FALSE, w |-> "ok",
                           left |-> NoBody]
               /\ UNCHANGED sess
          ELSE /\ sess' = [sess EXCEPT ![s] = [pc |-> "lock",
                                               op |-> "LogResponse",
                                               requestID |-> requestID,
                                               resp |-> resp]]
               /\ UNCHANGED last
    /\ calls' = [calls EXCEPT !.complete = @ + 1]
    /\ UNCHANGED <<mode, up, closed, logFile, requests, requestIdx, heap, now,
                   snapshot, snapView, created, restored>>
    /\ UNCHANGED <<disk, web, caFiles, ca, mu>>

(* the web server's handler calls GetRequests *)
CallGetRequests(s) ==
    /\ up
    /\ sess[s] = Idle
    /\ calls.snap < SnapshotBudget
    /\ sess' = [sess EXCEPT ![s] = [pc |-> "lock", op |-> "GetRequests"]]
    /\ calls' = [calls EXCEPT !.snap = @ + 1]
    /\ UNCHANGED <<mode, up, closed, logFile, requests, requestIdx, heap, now,
                   snapshot, snapView, created, restored, last>>
    /\ UNCHANGED <<disk, web, caFiles, ca, mu>>

(* l.mu.Lock(), logger.go:109, 190, 242 *)
Lock(s) ==
    /\ sess[s].pc = "lock"
    /\ Free(mu)
    /\ mu' = mu \cup {s}
    /\ sess' = [sess EXCEPT ![s].pc = "locked"]
    /\ UNCHANGED loggerVars
    /\ UNCHANGED <<mode, disk, web, caFiles, ca>>

(* logger.go:112-139: the headers are redacted and the request body is     *)
(* read from the connection, which takes as long as the client takes to    *)
(* send it.                                                                *)
ReadRequestBody(s) ==
    /\ At(s, "locked", "LogRequest")
    /\ sess' = [sess EXCEPT ![s] =
                  [pc |-> "write", op |-> "LogRequest", req |-> sess[s].req,
                   headers |-> RedactHeaders(sess[s].req.Header),
                   body |-> RequestBody(sess[s].req)]]
    /\ UNCHANGED loggerVars
    /\ UNCHANGED <<mode, disk, web, caFiles, ca, mu>>

(* logger.go:141-165: the entry is made, encoded and written *)
WriteRequestLine(s) ==
    /\ At(s, "write", "LogRequest")
    /\ \E uuid \in UUIDPrefixes :
          LET hm == NewMap(heap, sess[s].headers)
              req == sess[s].req
              entry == [ID |-> uuid, Timestamp |-> now,
                        Method |-> req.Method, Domain |-> req.Host,
                        Path |-> req.Path, Headers |-> hm.ref,
                        Body |-> sess[s].body, ResponseStatus |-> 0,
                        ResponseHeaders |-> NilRef, ResponseBody |-> <<>>,
                        PcapFile |-> PcapName(now)]
          IN  /\ heap' = hm.heap
              /\ logFile' = Write(logFile, Json(Marshal(hm.heap, entry)),
                                IF closed THEN "none" ELSE "ok")
              /\ sess' = [sess EXCEPT ![s] = [pc |-> "store",
                                              op |-> "LogRequest",
                                              req |-> req, entry |-> entry]]
    /\ now' = now + 1
    /\ UNCHANGED <<mode, up, closed, requests, requestIdx, snapshot, snapView,
                   created, restored, last, calls>>
    /\ UNCHANGED <<disk, web, caFiles, ca, mu>>

(* logger.go:167-181: the entry is put in the slice and the lookup, the    *)
(* slice is trimmed, and LogRequest returns                                *)
StoreRequest(s) ==
    /\ At(s, "store", "LogRequest")
    /\ LET entry == sess[s].entry
           appended == Append(requests, entry)
           idx == Put(requestIdx, entry.ID, Len(appended) - 1)
       IN  /\ IF Len(appended) > MaxLoggedRequests
              THEN /\ requests' = KeepLast(appended)
                   /\ requestIdx' = RebuildIdx(KeepLast(appended))
              ELSE /\ requests' = appended
                   /\ requestIdx' = idx
           /\ created' = Append(created, View(heap, entry))
           /\ last' = [op |-> "LogRequest", id |-> entry.ID,
                       req |-> sess[s].req, w |-> "ok",
                       left |-> RequestBodyLeft(sess[s].req)]
    /\ Unlock(s)
    /\ sess' = [sess EXCEPT ![s] = Idle]
    /\ UNCHANGED <<mode, up, closed, logFile, heap, now, snapshot, snapView,
                   restored, calls>>
    /\ UNCHANGED <<disk, web, caFiles, ca>>

(* logger.go:193-196: the record is looked up; LogResponse returns when    *)
(* there is none                                                           *)
LookupResponse(s) ==
    /\ At(s, "locked", "LogResponse")
    /\ LET found == LookupIdx(requestIdx, sess[s].requestID)
       IN  IF ~found.ok
           THEN /\ Unlock(s)
                /\ sess' = [sess EXCEPT ![s] = Idle]
                /\ last' = [op |-> "LogResponse", id |-> sess[s].requestID,
                            resp |-> sess[s].resp, ok |-> FALSE, w |-> "ok",
                            left |-> sess[s].resp.Body]
           ELSE /\ sess' = [sess EXCEPT ![s] =
                              [pc |-> "reading", op |-> "LogResponse",
                               requestID |-> sess[s].requestID,
                               resp |-> sess[s].resp, idx |-> found.idx]]
                /\ UNCHANGED <<mu, last>>
    /\ UNCHANGED <<mode, up, closed, logFile, requests, requestIdx, heap, now,
                   snapshot, snapView, created, restored, calls>>
    /\ UNCHANGED <<disk, web, caFiles, ca>>

(* logger.go:198-225: the response headers are taken, the response body is *)
(* read from the connection, which takes as long as the server takes to    *)
(* send it, and the record is updated                                      *)
UpdateResponse(s) ==
    /\ At(s, "reading", "LogResponse")
    /\ LET idx == sess[s].idx
           resp == sess[s].resp
           hm == ResponseHeadersMap(heap, requests[idx + 1],
                                    FirstValues(resp.Header))
           updated == [requests[idx + 1] EXCEPT
                          !.ResponseStatus = resp.StatusCode,
                          !.ResponseHeaders = hm.ref,
                          !.ResponseBody = ResponseBodyOf(resp)]
       IN  /\ heap' = hm.heap
           /\ requests' = UpdateAt(requests, idx, updated)
           /\ sess' = [sess EXCEPT ![s] =
                         [pc |-> "append", op |-> "LogResponse",
                          requestID |-> sess[s].requestID, resp |-> resp,
                          idx |-> idx]]
    /\ UNCHANGED <<mode, up, closed, logFile, requestIdx, now, snapshot, snapView,
                   created, restored, last, calls>>
    /\ UNCHANGED <<disk, web, caFiles, ca, mu>>

(* logger.go:227-238: the updated record is encoded and written, and       *)
(* LogResponse returns                                                     *)
AppendResponseLine(s) ==
    /\ At(s, "append", "LogResponse")
    /\ logFile' = Write(logFile,
                        Json(Marshal(heap, requests[sess[s].idx + 1])),
                        IF closed THEN "none" ELSE "ok")
    /\ last' = [op |-> "LogResponse", id |-> sess[s].requestID,
                resp |-> sess[s].resp, ok |-> TRUE, w |-> "ok",
                left |-> ResponseBodyLeft(sess[s].resp)]
    /\ Unlock(s)
    /\ sess' = [sess EXCEPT ![s] = Idle]
    /\ UNCHANGED <<mode, up, closed, requests, requestIdx, heap, now, snapshot,
                   snapView, created, restored, calls>>
    /\ UNCHANGED <<disk, web, caFiles, ca>>

(* logger.go:244-248: the slice is copied and GetRequests returns *)
CopyRequests(s) ==
    /\ At(s, "locked", "GetRequests")
    /\ snapshot' = [i \in 1..Len(requests) |-> requests[i]]
    /\ snapView' = ViewAll(heap, requests)
    /\ last' = [op |-> "GetRequests"]
    /\ Unlock(s)
    /\ sess' = [sess EXCEPT ![s] = Idle]
    /\ UNCHANGED <<mode, up, closed, logFile, requests, requestIdx, heap, now,
                   created, restored, calls>>
    /\ UNCHANGED <<disk, web, caFiles, ca>>

NextSessions ==
    \/ NewLogger
    \/ \E s \in Sessions :
          \/ CallLogRequest(s)
          \/ CallLogResponse(s)
          \/ CallGetRequests(s)
          \/ Lock(s)
          \/ ReadRequestBody(s)
          \/ WriteRequestLine(s)
          \/ StoreRequest(s)
          \/ LookupResponse(s)
          \/ UpdateResponse(s)
          \/ AppendResponseLine(s)
          \/ CopyRequests(s)

SpecSessions == InitSessions /\ [][NextSessions]_vars

----------------------------------------------------------------------------
(* Notions the properties are stated with. *)

(* The ids carried by the records of the working set. *)
IdsOf(reqs) == {reqs[i].ID : i \in 1..Len(reqs)}

(* A record as it was when LogRequest created it. *)
RequestPart(v) ==
    [v EXCEPT !.ResponseStatus = 0, !.ResponseHeaders = [null |-> TRUE],
              !.ResponseBody = <<>>]

(* Position in `requests` of the k-th record created since NewLogger (the  *)
(* record is in the working set iff the position is at least 1).           *)
PosOf(k) == Len(requests) - Len(created) + k

----------------------------------------------------------------------------
(* C1: starting from an empty log, after n LogRequest calls the working    *)
(* set, and so a snapshot of it, holds exactly min(n, MaxLoggedRequests)   *)
(* records: the most recently created ones, in creation order.             *)
C1_WorkingSetIsLastCreated ==
    (up /\ restored = 0) =>
        /\ Len(requests) = Min(Len(created), MaxLoggedRequests)
        /\ \A i \in 1..Len(requests) :
              RequestPart(View(heap, requests[i]))
                  = created[Len(created) - Len(requests) + i]
        /\ last.op = "GetRequests" =>
              ViewAll(heap, snapshot) = ViewAll(heap, requests)

C1_Witness ==
    /\ up
    /\ restored = 0
    /\ Len(created) > MaxLoggedRequests
    /\ last.op = "GetRequests"
    /\ Len(snapshot) = MaxLoggedRequests

(* C3: LogResponse with an id that no record of the working set carries     *)
(* changes neither the working set, nor the lookup, nor the durable store.  *)
C3_UnknownIdIsNoOp ==
    [][(/\ up
        /\ last'.op = "LogResponse"
        /\ last'.id \notin IdsOf(requests))
       => /\ UNCHANGED <<requests, requestIdx, logFile>>
          /\ ViewAll(heap', requests') = ViewAll(heap, requests)]_vars

(* reached: a LogResponse for the id of an evicted record, with records     *)
(* in the working set and in the lookup                                     *)
C3_Witness ==
    /\ last.op = "LogResponse"
    /\ ~last.resp.nil
    /\ last.id \notin IdsOf(requests)
    /\ \E k \in 1..Len(created) : created[k].ID = last.id /\ PosOf(k) < 1
    /\ requestIdx # EmptyMap

(* C2: a LogResponse with the id a LogRequest call returned, made while    *)
(* the record of that call is in the working set, fills the response       *)
(* status, headers and body of that very record, and changes the response  *)
(* fields of no other record.                                              *)
ResponseFields(v) ==
    <<v.ResponseStatus, v.ResponseHeaders, v.ResponseBody>>

C2_CompleteFillsItsRecord ==
    [][(/\ up
        /\ last'.op = "LogResponse"
        /\ ~last'.resp.nil)
       => \A k \in 1..Len(created) :
             (created[k].ID = last'.id /\ PosOf(k) >= 1) =>
                /\ ResponseFields(View(heap', requests'[PosOf(k)]))
                     = <<last'.resp.StatusCode,
                         [null |-> FALSE, m |-> FirstValues(last'.resp.Header)],
                         ResponseBodyOf(last'.resp)>>
                /\ \A i \in (1..Len(requests)) \ {PosOf(k)} :
                      ResponseFields(View(heap', requests'[i]))
                        = ResponseFields(View(heap, requests[i]))]_vars

(* C4: the records LogRequest put in the working set have pairwise         *)
(* distinct ids.                                                           *)
C4_IdsPairwiseDistinct ==
    (up /\ restored = 0) =>
        \A i, j \in 1..Len(requests) :
            i # j => requests[i].ID # requests[j].ID

(* C5: once a LogResponse has filled the response fields of a record, a    *)
(* further LogResponse for the same id changes neither that record nor     *)
(* the durable store.                                                      *)
C5_CompletedAtMostOnce ==
    [][(/\ up
        /\ last'.op = "LogResponse"
        /\ ~last'.resp.nil
        /\ last'.id \in DOMAIN requestIdx
        /\ requests[requestIdx[last'.id] + 1].ResponseStatus # 0)
       => /\ ViewAll(heap', requests') = ViewAll(heap, requests)
          /\ logFile' = logFile]_vars

----------------------------------------------------------------------------
(* The lines of the durable store, read off the positions of its newlines, *)
(* and the records of those that hold exactly one JSON object.             *)

LineEnds(data) == {i \in 1..(Len(data) + 1) : i = Len(data) + 1 \/ data[i] = NL}

NthLineEnd(data, n) ==
    CHOOSE p \in LineEnds(data) :
        Cardinality({q \in LineEnds(data) : q < p}) = n - 1

NthLine(data, n) ==
    LET from == IF n = 1 THEN 1 ELSE NthLineEnd(data, n - 1) + 1
    IN  SubSeq(data, from, NthLineEnd(data, n) - 1)

FileLines(data) == [n \in 1..Cardinality(LineEnds(data)) |-> NthLine(data, n)]

IsRecordLine(line) == Len(line) = 1 /\ line[1].kind = "json"

OrZero(obj, name, zero) == IF name \in DOMAIN obj THEN obj[name] ELSE zero

(* The record a line holds, as a reader of the working set sees it. *)
RecordOfLine(line) ==
    LET obj == line[1].obj
    IN  [ID |-> OrZero(obj, "id", ""),
         Timestamp |-> OrZero(obj, "timestamp", 0),
         Method |-> OrZero(obj, "method", ""),
         Domain |-> OrZero(obj, "domain", ""),
         Path |-> OrZero(obj, "path", ""),
         Headers |-> OrZero(obj, "headers", [null |-> TRUE]),
         Body |-> OrZero(obj, "body", <<>>),
         ResponseStatus |-> OrZero(obj, "response_status", 0),
         ResponseHeaders |->
             IF "response_headers" \in DOMAIN obj
             THEN [null |-> FALSE, m |-> obj.response_headers]
             ELSE [null |-> TRUE],
         ResponseBody |-> OrZero(obj, "response_body", <<>>),
         PcapFile |-> OrZero(obj, "pcap_file", <<>>)]

ParseableRecords(data) ==
    LET good == SelectSeq(FileLines(data), IsRecordLine)
    IN  [i \in 1..Len(good) |-> RecordOfLine(good[i])]

LastOf(s, n) == SubSeq(s, Len(s) - Min(n, Len(s)) + 1, Len(s))

(* C8: the working set never holds more than MaxLoggedRequests records,    *)
(* and right after NewLogger it holds the last MaxLoggedRequests           *)
(* parseable records of the durable store, in file order.                  *)
C8_WorkingSetBounded ==
    up => /\ Len(requests) <= MaxLoggedRequests
          /\ last.op = "NewLogger" =>
                ViewAll(heap, requests)
                  = LastOf(ParseableRecords(logFile), MaxLoggedRequests)

(* C9: right after NewLogger the working set holds exactly the records of  *)
(* the parseable lines of the durable store, in file order; a line that    *)
(* does not parse is skipped and does not stop the loading.                *)
C9_RestoreSkipsGarbledLines ==
    (up /\ last.op = "NewLogger") =>
        ViewAll(heap, requests) = ParseableRecords(logFile)

(* reached: a restore of a file with a garbled line before a good line     *)
C9_Witness ==
    /\ up
    /\ last.op = "NewLogger"
    /\ \E i, j \in 1..Len(FileLines(logFile)) :
          /\ i < j
          /\ Len(FileLines(logFile)[i]) > 0
          /\ ~IsRecordLine(FileLines(logFile)[i])
          /\ IsRecordLine(FileLines(logFile)[j])
    /\ Len(requests) >= 2

(* C10: what a slice returned by GetRequests shows, header maps included,  *)
(* stays what it showed when GetRequests returned, whatever LogRequest     *)
(* and LogResponse do afterwards.                                          *)
C10_SnapshotIndependent ==
    ViewAll(heap, snapshot) = snapView

(* reached: a LogResponse has filled a record that a snapshot holds and    *)
(* that was completed before the snapshot, after an eviction               *)
C10_Witness ==
    /\ up
    /\ last.op = "LogResponse"
    /\ last.ok
    /\ \E i \in 1..Len(snapshot) :
          /\ snapshot[i].Headers = requests[requestIdx[last.id] + 1].Headers
          /\ snapshot[i].ResponseHeaders # NilRef
          /\ View(heap, snapshot[i])
               # View(heap, requests[requestIdx[last.id] + 1])
    /\ Len(created) > Len(requests)

----------------------------------------------------------------------------
(* The record the last LogRequest stored, and the line it wrote. *)

StoredEntry == View(heap, requests[Len(requests)])

WrittenLine == logFile[Len(logFile) - 1].obj

AllRedacted(m) == \A k \in DOMAIN m : Lower(k) \in DenyList => m[k] = Redacted

(* C6: a request header whose name is on the deny-list, in whatever letter *)
(* case the request keys it, is stored as the marker: its value is in no   *)
(* record of the working set, of a snapshot or of the durable store.       *)
C6_DenyListedHeadersRedacted ==
    /\ (up /\ last.op = "LogRequest") =>
          \A k \in DOMAIN last.req.Header :
              (Lower(k) \in DenyList /\ Len(last.req.Header[k]) > 0) =>
                  /\ k \in DOMAIN StoredEntry.Headers.m
                  /\ StoredEntry.Headers.m[k] = Redacted
                  /\ last.w = "ok" => WrittenLine.headers.m[k] = Redacted
    /\ \A i \in 1..Len(requests) :
          AllRedacted(View(heap, requests[i]).Headers.m)
    /\ \A i \in 1..Len(snapView) : AllRedacted(snapView[i].Headers.m)
    /\ \A i \in 1..Len(logFile) :
          logFile[i].kind = "json" => AllRedacted(logFile[i].obj.headers.m)

(* What the log is to keep of a body. *)
CappedBody(bytes) ==
    IF Len(bytes) <= MaxBodyLog
    THEN bytes
    ELSE [i \in 1..(MaxBodyLog + 1) |->
             IF i <= MaxBodyLog THEN bytes[i] ELSE Truncated]

(* C7 as claimed: whatever the method, the stored body of a request that   *)
(* carries one is the body itself up to MaxBodyLog bytes, and otherwise    *)
(* its first MaxBodyLog bytes followed by the truncation marker.           *)
C7_BodyCappedWhateverMethod ==
    (up /\ last.op = "LogRequest" /\ last.req.Body.present) =>
        StoredEntry.Body = CappedBody(last.req.Body.bytes)

(* C7, amended: that holds in the working set of a POST, PUT or PATCH      *)
(* request whose body is read without error; the line written holds that   *)
(* stored body with every byte that is part of no UTF-8 character replaced *)
(* by U+FFFD; of any other request no body is stored.                      *)
C7_BodyCappedForPostPutPatch ==
    (up /\ last.op = "LogRequest") =>
        LET req == last.req
            stored == StoredEntry.Body
        IN  /\ IF /\ req.Body.present
                  /\ req.Method \in {"POST", "PUT", "PATCH"}
                  /\ req.Body.failAt < 0
               THEN stored = CappedBody(req.Body.bytes)
               ELSE stored = <<>>
            /\ last.w = "ok" =>
                  IF stored = <<>>
                  THEN "body" \notin DOMAIN WrittenLine
                  ELSE WrittenLine.body = ToValidUTF8(stored)

(* reached: a PUT whose body is one byte over the cap, stored cut *)
C7_Witness ==
    /\ up
    /\ last.op = "LogRequest"
    /\ last.req.Method = "PUT"
    /\ last.req.Body.failAt < 0
    /\ Len(last.req.Body.bytes) = MaxBodyLog + 1
    /\ Len(StoredEntry.Body) = MaxBodyLog + 1
    /\ StoredEntry.Body[MaxBodyLog + 1] = Truncated
    /\ last.w = "ok"
    /\ WrittenLine.body # StoredEntry.Body

----------------------------------------------------------------------------
(* C11: the records of the working set stand in the order in which         *)
(* LogRequest created them, whatever the order of the LogResponse calls:   *)
(* a LogResponse changes response fields only, it neither moves, nor       *)
(* duplicates, nor removes a record.                                       *)
RequestParts(h, s) == [i \in 1..Len(s) |-> RequestPart(View(h, s[i]))]

C11_CreationOrderKept ==
    [][/\ up' =>
            \A k \in 1..Len(created') :
                (Len(requests') - Len(created') + k >= 1) =>
                    RequestPart(View(heap',
                        requests'[Len(requests') - Len(created') + k]))
                      = created'[k]
       /\ (up /\ last'.op = "LogResponse") =>
            RequestParts(heap', requests') = RequestParts(heap, requests)]_vars

(* reached: two records in the working set, the later one completed first, *)
(* then the earlier one                                                    *)
C11_Witness ==
    /\ up
    /\ last.op = "LogResponse"
    /\ last.ok
    /\ Len(requests) >= 2
    /\ requestIdx[last.id] + 1 < Len(requests)
    /\ requests[Len(requests)].ResponseStatus # 0
    /\ requests[requestIdx[last.id] + 1].ResponseStatus # 0

----------------------------------------------------------------------------
(* The record lines of the durable store that bear an id. *)
LinesWithId(data, id) ==
    SelectSeq(FileLines(data),
              LAMBDA line : IsRecordLine(line) /\ line[1].obj.id = id)

(* C12: LogRequest and LogResponse only append whole lines to the durable  *)
(* store; a LogResponse that finds its id appends exactly one line, which  *)
(* holds the whole updated record, and after it the last line of the store *)
(* that bears the id is the working-set record with that id.               *)
C12_Step ==
    /\ (up /\ last'.op \in {"LogRequest", "LogResponse"}) =>
         /\ \/ logFile' = logFile
            \/ \E obj \in {logFile'[i].obj :
                             i \in {j \in 1..Len(logFile') :
                                      logFile'[j].kind = "json"}} :
                  logFile' = logFile \o <<Json(obj), NL>>
         /\ \A n \in 1..(Len(FileLines(logFile)) - 1) :
               FileLines(logFile')[n] = FileLines(logFile)[n]
    /\ (up /\ last'.op = "LogResponse" /\ last'.ok) =>
         LET rec == requests'[requestIdx'[last'.id] + 1]
             line == Json(Marshal(heap', rec))
             with == LinesWithId(logFile', last'.id)
         IN  /\ logFile' = logFile \o <<line, NL>>
             /\ Len(with) > 0
             /\ with[Len(with)] = <<line>>
             /\ RecordOfLine(with[Len(with)]) = View(heap', rec)

(* C12: every step of the log is such a step. *)
C12_AppendOnlyLatestWins == [][C12_Step]_vars

----------------------------------------------------------------------------
HasLine(data, h, e) ==
    \E n \in 1..Len(FileLines(data)) :
        /\ FileLines(data)[n] = <<Json(Marshal(h, e))>>
        /\ RecordOfLine(FileLines(data)[n]) = View(h, e)

(* C17: the durable store, the working set and the lookup agree: every     *)
(* record of the working set has a durable line equal to it and a lookup   *)
(* entry pointing at it, and the entry of the last LogRequest is in all    *)
(* three.                                                                  *)
C17_NoTornUpdates ==
    up =>
        /\ \A i \in 1..Len(requests) :
              /\ HasLine(logFile, heap, requests[i])
              /\ requests[i].ID \in DOMAIN requestIdx
              /\ requestIdx[requests[i].ID] = i - 1
        /\ last.op = "LogRequest" =>
              /\ Len(requests) > 0
              /\ requests[Len(requests)].ID = last.id
              /\ HasLine(logFile, heap, requests[Len(requests)])
              /\ last.id \in DOMAIN requestIdx
              /\ requestIdx[last.id] = Len(requests) - 1

(* C19: the body left on the request when LogRequest returns, and on the   *)
(* response when LogResponse returns, reads as the original body did:      *)
(* the same bytes, whatever their number, also when the read fails.        *)
C19_BodyLeftAsItWas ==
    /\ (up /\ last.op = "LogRequest") =>
          /\ last.left.present = last.req.Body.present
          /\ ReadAll(last.left).data = ReadAll(last.req.Body).data
    /\ (up /\ last.op = "LogResponse" /\ ~last.resp.nil) =>
          /\ last.left.present = last.resp.Body.present
          /\ ReadAll(last.left).data = ReadAll(last.resp.Body).data

SameRequest(l1, l2) ==
    RequestPart(RecordOfLine(l1)) = RequestPart(RecordOfLine(l2))

(* C20: when the lines of the durable store that share an id are a request *)
(* line and its completed lines, the working set holds after NewLogger one *)
(* record for that id, the one of the last such line.                      *)
C20_RestoreTakesLatestPerId ==
    (/\ up
     /\ last.op = "NewLogger"
     /\ \A i, j \in 1..Len(FileLines(logFile)) :
           LET li == FileLines(logFile)[i]
               lj == FileLines(logFile)[j]
           IN  (IsRecordLine(li) /\ IsRecordLine(lj)
                /\ li[1].obj.id = lj[1].obj.id) => SameRequest(li, lj))
    => \A id \in IdsOf(requests) :
          LET with == LinesWithId(logFile, id)
          IN  /\ Cardinality({i \in 1..Len(requests) : requests[i].ID = id}) = 1
              /\ \A i \in 1..Len(requests) :
                    requests[i].ID = id =>
                        View(heap, requests[i]) = RecordOfLine(with[Len(with)])

----------------------------------------------------------------------------
HasSeparator(name) == \E i \in 1..Len(name) : name[i] = Sep

(* C13 as stated: a name that holds a path separator or does not end in    *)
(* ".pcap" is answered 400 before storage is touched, and no file is       *)
(* served for it.                                                          *)
C13_SeparatorNamesRejected ==
    (web.op = "handlePcapDownload"
     /\ (HasSeparator(web.name) \/ ~HasPcapSuffix(web.name)))
    => /\ web.answer.status = 400
       /\ web.answer.stat = {}
       /\ web.answer.served = {}

InLogsDir(path) ==
    /\ Len(path) = Len(LogsDir) + 1
    /\ SubSeq(path, 1, Len(LogsDir)) = LogsDir
    /\ HasPcapSuffix(path[Len(path)])

(* C13: handlePcapDownload answers 400 without touching storage when the   *)
(* name is empty or its last path element does not end in ".pcap"; the     *)
(* only path it touches is that last element directly in the logs          *)
(* directory, and a file it serves is an existing file directly in the     *)
(* logs directory whose name ends in ".pcap".                              *)
C13_ServesOnlyCapturesOfLogsDir ==
    web.op = "handlePcapDownload" =>
        /\ (web.name = <<>> \/ ~HasPcapSuffix(TrimSeps(web.name))) =>
              /\ web.answer.status = 400
              /\ web.answer.stat = {}
              /\ web.answer.served = {}
        /\ \A path \in web.answer.stat : InLogsDir(path)
        /\ \A path \in web.answer.served : InLogsDir(path) /\ path \in disk
        /\ web.answer.served \subseteq web.answer.stat

C13_Witness ==
    /\ web.op = "handlePcapDownload"
    /\ HasSeparator(web.name)
    /\ web.answer.status = 200
    /\ web.answer.served = {LogsDir \o <<<<"x.pcap">>>>}
    /\ LogsDir \o <<<<"k">>, <<"x.pcap">>>> \in disk

----------------------------------------------------------------------------
(* C14: all the successful calls of LoadOrCreateCA on one logs directory   *)
(* return the same certificate and key, bit for bit, and a successful call *)
(* after a successful call writes neither artifact and leaves both as they *)
(* were.                                                                   *)
C14_LoadOrCreateIdempotent ==
    /\ \A i, j \in 1..Len(ca.returned) : ca.returned[i] = ca.returned[j]
    /\ (ca.op = "LoadOrCreateCA" /\ ca.ret.err = "" /\ Len(ca.returned) >= 2) =>
          /\ ca.wrote = {}
          /\ caFiles = ca.before

C14_Witness ==
    /\ ca.op = "LoadOrCreateCA"
    /\ Len(ca.returned) >= 2
    /\ ca.failed >= 1
    /\ ca.gen >= 2
    /\ ca.returned[1].CertPEM = EncodeCert(ca.gen)

Decodes(file, what) ==
    /\ ~pemDecode(file.data).nil
    /\ pemDecode(file.data).Bytes.what = what

(* C15: when both artifacts exist and the certificate or the key does not  *)
(* decode or parse, LoadOrCreateCA returns an error, generates no root and *)
(* leaves both artifacts as they were.                                     *)
C15_NoRepairOfBrokenArtifacts ==
    (/\ ca.op = "LoadOrCreateCA"
     /\ ca.before.cert.exists /\ ca.before.key.exists
     /\ ca.before.cert.readable /\ ca.before.key.readable
     /\ ~(Decodes(ca.before.cert, "cert") /\ Decodes(ca.before.key, "key")))
    => /\ ca.ret.err # ""
       /\ ca.gen = ca.genBefore
       /\ ca.wrote = {}
       /\ caFiles = ca.before

C15_Witness ==
    /\ ca.op = "LoadOrCreateCA"
    /\ Decodes(ca.before.cert, "cert")
    /\ ca.before.key.exists /\ ca.before.key.readable
    /\ ~Decodes(ca.before.key, "key")
    /\ ca.ret.err = "failed to decode CA key PEM"
    /\ ca.failed >= 2

----------------------------------------------------------------------------
(* A session whose call waits for the body of its request or response.    *)
Stalled(s) ==
    \/ sess[s].pc = "locked" /\ sess[s].op = "LogRequest"
    \/ sess[s].pc = "reading"

(* C16: while a session is stalled reading a body, the call of another     *)
(* session that waits to enter can enter: the stalled session does not     *)
(* hold the mutex.                                                          *)
C16_StalledReaderBlocksNobody ==
    \A s \in Sessions, t \in Sessions :
        (s # t /\ Stalled(s) /\ sess[t].pc = "lock") => Free(mu)

InCriticalSection(s) == sess[s].pc \notin {"idle", "lock"}

FirstLineOf(data, v) ==
    LET lines == FileLines(data)
        at == {n \in 1..Len(lines) :
                  /\ IsRecordLine(lines[n])
                  /\ RecordOfLine(lines[n]).ID = v.ID
                  /\ RecordOfLine(lines[n]).Timestamp = v.Timestamp}
    IN  IF at = {} THEN 0 ELSE CHOOSE n \in at : \A m \in at : n <= m

(* C18: at most one session is between its Lock and its return, the one    *)
(* that holds the mutex; and the lines written when records were created   *)
(* stand in the durable store in the order in which the records stand in   *)
(* the working set, each record still held having its line.                *)
C18_OneAtATimeInCreationOrder ==
    /\ Cardinality({s \in Sessions : InCriticalSection(s)}) <= 1
    /\ mu = {s \in Sessions : InCriticalSection(s)}
    /\ up =>
          /\ \A i \in 1..Len(requests) :
                FirstLineOf(logFile, RequestPart(View(heap, requests[i]))) > 0
          /\ \A i, j \in 1..Len(requests) :
                i < j =>
                    FirstLineOf(logFile, RequestPart(View(heap, requests[i])))
                      < FirstLineOf(logFile, RequestPart(View(heap, requests[j])))

C18_Witness ==
    /\ \E s \in Sessions, t \in Sessions :
          /\ sess[s].pc = "store"
          /\ sess[t].pc = "lock"
          /\ sess[t].op = "LogResponse"
    /\ Len(requests) >= 1
    /\ Len(FileLines(logFile)) > Len(requests)

----------------------------------------------------------------------------
(* C21: every entry of requestIdx points to a position inside l.requests   *)
(* whose record carries the entry's id, also after records were dropped    *)
(* from the front; and the record a LogResponse has filled is the one at   *)
(* that position, carrying the id it was called with.                      *)
C21_LookupPointsAtItsRecord ==
    /\ \A id \in DOMAIN requestIdx :
          /\ requestIdx[id] >= 0
          /\ requestIdx[id] < Len(requests)
          /\ requests[requestIdx[id] + 1].ID = id
    /\ (up /\ last.op = "LogResponse" /\ last.ok) =>
          /\ last.id \in DOMAIN requestIdx
          /\ requestIdx[last.id] < Len(requests)
          /\ requests[requestIdx[last.id] + 1].ID = last.id
          /\ requests[requestIdx[last.id] + 1].ResponseStatus
                = last.resp.StatusCode

C21_Witness ==
    /\ up
    /\ Len(created) > MaxLoggedRequests
    /\ Len(requests) = MaxLoggedRequests
    /\ Cardinality(DOMAIN requestIdx) >= 2
    /\ last.op = "LogResponse"
    /\ last.ok
    /\ requestIdx[last.id] = 0

EndsInPcap(elem) == elem # <<>> /\ elem[Len(elem)] = "x.pcap"

ChildOfLogsDir(path) ==
    /\ Len(path) = Len(LogsDir) + 1
    /\ \A i \in 1..Len(LogsDir) : path[i] = LogsDir[i]

LastElement(name) == AfterLastSep(TrimSeps(name))

(* C22: whatever the requested name, a file served by handlePcapDownload   *)
(* is a direct child of the logs directory whose name ends in ".pcap",     *)
(* never a file outside the logs directory, below a directory of it, or a  *)
(* file that is no capture, and no such file is looked up either; a name   *)
(* that passes the checks and whose file is missing is answered 404.       *)
C22_OnlyCapturesOfLogsDirServed ==
    web.op = "handlePcapDownload" =>
        /\ \A path \in web.answer.served \cup web.answer.stat :
              /\ ChildOfLogsDir(path)
              /\ EndsInPcap(path[Len(path)])
              /\ path \notin {LogsDir \o <<<<"k">>>>,
                              LogsDir \o <<<<"k">>, <<"x.pcap">>>>,
                              <<<<"x.pcap">>>>}
        /\ web.answer.status = 200 <=> web.answer.served # {}
        /\ (/\ web.name # <<>>
            /\ EndsInPcap(LastElement(web.name))
            /\ LogsDir \o <<LastElement(web.name)>> \notin disk)
           => /\ web.answer.status = 404
              /\ web.answer.served = {}

C22_Witness ==
    /\ web.op = "handlePcapDownload"
    /\ web.name = <<"..", Sep, "x.pcap">>
    /\ <<<<"x.pcap">>>> \in disk
    /\ LogsDir \o <<<<"k">>>> \in disk
    /\ LogsDir \o <<<<"x.pcap">>>> \notin disk
    /\ web.answer.status = 404
    /\ web.answer.stat = {LogsDir \o <<<<"x.pcap">>>>}

====
